---- MODULE Spec2Model ----
(***************************************************************************)
(* A model of the video-splitter tools: ffmpeg-split.py (split by seconds, *)
(* by chunk count, by approximate file size, or by manifest) and           *)
(* ffmpeg-merge.py (compatibility check and concat-demuxer merge).         *)
(*                                                                         *)
(* One behaviour is one run of one tool.  Init draws the command line and  *)
(* the environment (the media file, the manifest, the directory) from      *)
(* bounded sets; the actions follow the control flow of the code.          *)
(*                                                                         *)
(* Python values.  An int-or-None value is a sequence of length <= 1:      *)
(* None is << >> and the int v is <<v>>.  Truthy is Python's truth test.   *)
(* The floating-point expressions of the code (ceildiv, the size factor,   *)
(* the eager length) are computed exactly over the integers; on the        *)
(* bounded inputs used here the double-precision results agree with the    *)
(* exact ones.                                                             *)
(***************************************************************************)
EXTENDS Integers, Sequences, FiniteSets, TLC

\* ------------------------------------------------------------------ bounds

\* Whole seconds of the longest media file.
MaxDur == 5
\* Largest explicit --split-size.
MaxLen == 3
\* Largest --split-chunks.
MaxChunks == 3
\* Largest --split-filesize, in bytes.
MaxTarget == 4
\* Largest media file size, in bytes.
MaxSize == 3
\* Most entries in a manifest.
MaxEntries == 2
\* Most video files in the merge directory.
MaxFiles == 3

\* --filesize-factor default 0.95, as the fraction 19/20.
DefaultFactorNum == 19
DefaultFactorDen == 20

\* ------------------------------------------------------------ Python values

None == << >>
Some(v) == <<v>>

\* Python's truth test of an int-or-None: None and 0 are false.
Truthy(o) == o # None /\ o[1] # 0

\* int(x) of the rational num/den, den > 0: truncation toward zero.
IntTrunc(num, den) == IF num >= 0 THEN num \div den ELSE -((-num) \div den)

\* ceildiv with a fault: the quotient rounded down.  C10 depends on the
\* rounding.
ceildiv_floor(a, b) == IF b > 0 THEN a \div b ELSE (-a) \div (-b)

\* ceildiv(a, b) = int(math.ceil(a / float(b))), b # 0.
ceildiv(a, b) == IF b > 0 THEN -((-a) \div b) ELSE -(a \div (-b))

\* ------------------------------------------------------------------- state

VARIABLES
    tool,          \* "split" or "merge": which script runs
    pc,            \* position in the script
    opts,          \* the parsed command line of ffmpeg-split.py
    media,         \* the file to split, as ffprobe and os.stat see it
    split_chunks,  \* options.split_chunks after main's resolution
    split_length,  \* options.split_length after main's resolution
    video_length,  \* video_length as passed to / used by split_by_seconds
    split_count,   \* split_by_seconds' split_count (None before it is set)
    n,             \* loop index of the cut loop
    calls,         \* the transcoder cut invocations issued so far, in order
    err,           \* how the run failed ("none" while it has not)
    exitCode,      \* the process exit status (None while running)
    manifest,      \* the manifest file of a --manifest run
    config,        \* split_by_manifest's config: the entries it iterates
    video_files,   \* ffmpeg-merge.py: the sorted video files, as probed
    check_result,  \* what check_videos_compatibility returned
    temp_file      \* whether concat_list.txt exists

vars == <<tool, pc, opts, media, split_chunks, split_length, video_length,
          split_count, n, calls, err, exitCode, manifest, config,
          video_files, check_result, temp_file>>

\* What each part of the program leaves alone.
splitVars == <<split_chunks, split_length, video_length, split_count>>
manifestVars == <<manifest, config>>
mergeVars == <<video_files, check_result, temp_file>>

\* ------------------------------------------------------------- media probe

\* The media file: its true duration is sec seconds plus, when frac is
\* TRUE, a non-zero fraction of a second; size is os.stat's st_size.
Medias ==
    [sec : 0..MaxDur, frac : BOOLEAN, size : 0..MaxSize]

\* get_video_length: int(float(output)) truncates the duration.
get_video_length(m) == m.sec

\* ceil(true duration / len) for an integer len > 0.
CeilTrueDuration(m, len) ==
    IF m.frac THEN (m.sec \div len) + 1 ELSE ceildiv(m.sec, len)

\* start + len >= true duration, for integers start and len.
CoversTrueDuration(m, end) == IF m.frac THEN end > m.sec ELSE end >= m.sec

\* ------------------------------------------------------------ exit status

\* `raise SystemExit` carries no code: the interpreter exits with status 0.
SystemExitStatus == 0
\* An exception nobody catches ends the interpreter with status 1, as
\* does sys.exit(1).
FailureStatus == 1

\* The run ends: kind is the error ("none" for a normal return).
Finish(kind, status) ==
    /\ pc' = "done"
    /\ err' = kind
    /\ exitCode' = Some(status)

\* ------------------------------------------------- ffmpeg-split.py: main

Strategies == {"eager", "even"}
Factors == {<<DefaultFactorNum, DefaultFactorDen>>, <<1, 1>>}
OptInts(lo, hi) == {None} \cup {Some(v) : v \in lo..hi}

SplitOptions ==
    [filename : BOOLEAN,
     manifest : BOOLEAN,
     split_length : OptInts(-1, MaxLen),
     split_chunks : OptInts(-1, MaxChunks),
     split_filesize : OptInts(-2, MaxTarget),
     factor : Factors,
     chunk_strategy : Strategies]

\* split_filesize = int(options.split_filesize * options.filesize_factor),
\* or None when no (or a zero) --split-filesize is given.
split_filesize(o) ==
    IF Truthy(o.split_filesize)
    THEN Some(IntTrunc(o.split_filesize[1] * o.factor[1], o.factor[2]))
    ELSE None

\* options.split_chunks after the `even' strategy has (or has not) set it.
chunks_resolved(o, m) ==
    IF Truthy(split_filesize(o)) /\ o.chunk_strategy = "even"
    THEN Some(ceildiv(m.size, split_filesize(o)[1]))
    ELSE o.split_chunks

\* options.split_length after `if options.split_chunks:'.
length_from_chunks(o, m, vl) ==
    IF Truthy(chunks_resolved(o, m))
    THEN Some(ceildiv(vl, chunks_resolved(o, m)[1]))
    ELSE o.split_length

\* eager_applies with a fault: the size target is used whenever it is
\* given.  C2 depends on the test of the length.
eager_applies_always(o, m, vl) == Truthy(split_filesize(o))

\* `if not options.split_length and split_filesize:'
eager_applies(o, m, vl) ==
    ~Truthy(length_from_chunks(o, m, vl)) /\ Truthy(split_filesize(o))

\* options.split_length when main has resolved it (m.size # 0 where the
\* eager formula applies).
length_resolved(o, m, vl) ==
    IF eager_applies(o, m, vl)
    THEN Some(IntTrunc(split_filesize(o)[1] * vl, m.size))
    ELSE length_from_chunks(o, m, vl)

\* main, without --manifest: bail out without a file, resolve the split
\* length when none is given, bail out when none results, and call
\* split_by_seconds.
main_seconds ==
    /\ tool = "split"
    /\ pc = "main"
    /\ ~opts.manifest
    /\ UNCHANGED <<tool, opts, media, split_count, n, calls, manifestVars,
                   mergeVars>>
    /\ IF ~opts.filename
       THEN /\ Finish("MissingSplitParameter", SystemExitStatus)
            /\ UNCHANGED <<split_chunks, split_length, video_length>>
       ELSE IF Truthy(opts.split_length)
       THEN /\ pc' = "split_by_seconds"
            /\ UNCHANGED <<split_chunks, split_length, video_length,
                           err, exitCode>>
       ELSE \E probeOk \in BOOLEAN :
            LET vl == get_video_length(media) IN
            IF ~probeOk
            THEN /\ Finish("ProbeFailure", FailureStatus)
                 /\ UNCHANGED <<split_chunks, split_length, video_length>>
            ELSE /\ video_length' = Some(vl)
                 /\ split_chunks' = chunks_resolved(opts, media)
                 /\ IF eager_applies(opts, media, vl) /\ media.size = 0
                    THEN /\ Finish("ZeroDivisionError", FailureStatus)
                         /\ split_length' = length_from_chunks(opts, media, vl)
                    ELSE /\ split_length' = length_resolved(opts, media, vl)
                         /\ IF ~Truthy(length_resolved(opts, media, vl))
                            THEN Finish("MissingSplitParameter",
                                        SystemExitStatus)
                            ELSE /\ pc' = "split_by_seconds"
                                 /\ UNCHANGED <<err, exitCode>>

\* --------------------------------------- ffmpeg-split.py: split_by_seconds

\* `if split_length and split_length <= 0:'
invalid_length(len) == Truthy(len) /\ len[1] <= 0

\* `if split_count == 1:'
trivial_split(cnt) == cnt = 1

\* split_by_seconds up to its loop: the length check, the probe when no
\* video_length was passed, split_count and the trivial-split check.
split_by_seconds_plan ==
    /\ tool = "split"
    /\ pc = "split_by_seconds"
    /\ UNCHANGED <<tool, opts, media, split_chunks, split_length, calls,
                   manifestVars, mergeVars>>
    /\ IF invalid_length(split_length)
       THEN /\ Finish("InvalidLengthError", SystemExitStatus)
            /\ UNCHANGED <<video_length, split_count, n>>
       ELSE \E probeOk \in BOOLEAN :
            LET probes == ~Truthy(video_length)
                vl == IF probes THEN get_video_length(media)
                                ELSE video_length[1]
            IN
            IF probes /\ ~probeOk
            THEN /\ Finish("ProbeFailure", FailureStatus)
                 /\ UNCHANGED <<video_length, split_count, n>>
            ELSE /\ video_length' = Some(vl)
                 /\ IF ~Truthy(split_length)
                    THEN /\ Finish("ZeroDivisionError", FailureStatus)
                         /\ UNCHANGED <<split_count, n>>
                    ELSE LET cnt == ceildiv(vl, split_length[1]) IN
                         /\ split_count' = Some(cnt)
                         /\ IF trivial_split(cnt)
                            THEN /\ Finish("TrivialSplitError",
                                           SystemExitStatus)
                                 /\ UNCHANGED n
                            ELSE /\ pc' = "cut"
                                 /\ n' = 0
                                 /\ UNCHANGED <<err, exitCode>>

\* File names are sequences of pieces; "." is the piece that separates
\* the parts str.split(".") yields.  The file given with --file:
InputName == <<"in", ".", "mp4">>

\* name.split(".")[-1]
last_part(name) ==
    LET dots == {i \in 1..Len(name) : name[i] = "."} IN
    IF dots = {} THEN name
    ELSE SubSeq(name, (CHOOSE i \in dots : \A j \in dots : j <= i) + 1,
                Len(name))

\* ".".join(name.split(".")[:-1])
without_last_part(name) ==
    LET dots == {i \in 1..Len(name) : name[i] = "."} IN
    IF dots = {} THEN << >>
    ELSE SubSeq(name, 1, (CHOOSE i \in dots : \A j \in dots : j <= i) - 1)

\* f"{filebase}-{n+1}-of-{split_count}.{fileext}"
segment_name(name, k, cnt) ==
    without_last_part(name) \o <<"-", ToString(k), "-of-", ToString(cnt), ".">>
        \o last_part(name)

\* The start of segment k (0-based): 0, then split_length * k.
split_start(len, k) == IF k = 0 THEN 0 ELSE len * k

\* after_cut_failure with a fault: the loop goes on after a failure.  C8
\* depends on the exception leaving the loop.
after_cut_failure_continues == pc

\* Where the loop goes when a transcoder invocation fails: check_output
\* raises CalledProcessError, which nothing catches.
after_cut_failure == "done"

\* One iteration of `for n in range(0, split_count)': one transcoder cut
\* invocation, which succeeds or fails.
split_by_seconds_cut ==
    /\ tool = "split"
    /\ pc = "cut"
    /\ n < split_count[1]
    /\ calls' = Append(calls, [idx |-> n + 1,
                               ss |-> split_start(split_length[1], n),
                               t |-> split_length[1],
                               out |-> segment_name(InputName, n + 1,
                                                    split_count[1])])
    /\ n' = n + 1
    /\ UNCHANGED <<tool, opts, media, splitVars, manifestVars, mergeVars>>
    /\ \E ok \in BOOLEAN :
         IF ok
         THEN UNCHANGED <<pc, err, exitCode>>
         ELSE /\ pc' = after_cut_failure
              /\ err' = "TranscodeFailure"
              /\ exitCode' = Some(FailureStatus)

\* The loop is exhausted: split_by_seconds and main return.
split_by_seconds_return ==
    /\ tool = "split"
    /\ pc = "cut"
    /\ n >= split_count[1]
    /\ Finish("none", 0)
    /\ UNCHANGED <<tool, opts, media, splitVars, n, calls, manifestVars,
                   mergeVars>>

\* -------------------------------------- ffmpeg-split.py: split_by_manifest

\* The rename_to values: a, a.mp4, mp4a and mp4.a.  Among the pieces
\* "a", "." and "mp4" the text mp4 occurs only as the piece "mp4", so a
\* substring test for it is a test for that piece.
RenameTos ==
    {<<"a">>, <<"a", ".", "mp4">>, <<"mp4", "a">>, <<"mp4", ".", "a">>}

\* A manifest entry: each key is absent (None) or carries a value.
Entries ==
    [start_time : {None, Some(2)},
     length : {None, Some(4)},
     end_time : {None, Some(0), Some(9)},
     rename_to : {None} \cup RenameTos]

\* An entry of a structured manifest's output_clips.
Clips == {e \in Entries : e.end_time = None /\ e.rename_to = None}

SeqsUpTo(S, k) == UNION {[1..m -> S] : m \in 0..k}

\* The manifest file: whether it exists, its extension, whether its JSON
\* root is the structured object {input_file, output_clips}, its entries.
Manifests ==
    {[exists |-> FALSE, type |-> "json", structured |-> FALSE,
      entries |-> << >>]}
    \cup {[exists |-> TRUE, type |-> "txt", structured |-> FALSE,
           entries |-> << >>]}
    \cup [exists : {TRUE}, type : {"json", "csv"}, structured : {FALSE},
          entries : SeqsUpTo(Entries, MaxEntries)]
    \cup [exists : {TRUE}, type : {"json"}, structured : {TRUE},
          entries : SeqsUpTo(Clips, MaxEntries)]

\* Python's truth test of a manifest value: a JSON number is false when
\* 0; a CSV field is a non-empty string, which is true.
TruthyField(type, o) == o # None /\ (type = "csv" \/ o[1] # 0)

\* main with --manifest: a structured JSON manifest needs no --file; any
\* other manifest does.
main_manifest ==
    /\ tool = "split"
    /\ pc = "main"
    /\ opts.manifest
    /\ UNCHANGED <<tool, opts, media, splitVars, n, calls, manifestVars,
                   mergeVars>>
    /\ IF (manifest.exists /\ manifest.type = "json" /\ manifest.structured)
          \/ opts.filename
       THEN /\ pc' = "split_by_manifest"
            /\ UNCHANGED <<err, exitCode>>
       ELSE Finish("MissingSplitParameter", SystemExitStatus)

\* The config item made of output_clips[i] (0-based i): the default name
\* clip-{i}.{fileext}.
config_item(clip, i) ==
    [start_time |-> clip.start_time,
     length |-> clip.length,
     end_time |-> None,
     rename_to |-> <<"clip-", ToString(i), ".">> \o last_part(InputName)]

\* split_by_manifest up to its loop: the manifest must exist and be json
\* or csv; a structured manifest is converted, which reads start_time and
\* length of every clip outside any try.
split_by_manifest_open ==
    /\ tool = "split"
    /\ pc = "split_by_manifest"
    /\ UNCHANGED <<tool, opts, media, splitVars, calls, manifest, mergeVars>>
    /\ IF ~manifest.exists
       THEN /\ Finish("ManifestNotFound", SystemExitStatus)
            /\ UNCHANGED <<config, n>>
       ELSE IF manifest.type \notin {"json", "csv"}
       THEN /\ Finish("UnsupportedManifestFormat", SystemExitStatus)
            /\ UNCHANGED <<config, n>>
       ELSE IF /\ manifest.structured
               /\ \E i \in 1..Len(manifest.entries) :
                    \/ manifest.entries[i].start_time = None
                    \/ manifest.entries[i].length = None
       THEN /\ Finish("KeyError", FailureStatus)
            /\ UNCHANGED <<config, n>>
       ELSE /\ config' = IF manifest.structured
                         THEN [i \in 1..Len(manifest.entries) |->
                                 config_item(manifest.entries[i], i - 1)]
                         ELSE manifest.entries
            /\ n' = 0
            /\ pc' = "entries"
            /\ UNCHANGED <<err, exitCode>>

\* entry_duration with a fault: length first, end_time only without it.
\* C9 depends on the order of the two reads.
entry_duration_length_first(type, e) ==
    IF e.length # None THEN e.length ELSE e.end_time

\* split_length of a manifest entry: video_config.get("end_time"), and
\* video_config["length"] when that is false.  None stands for the
\* KeyError raised when the entry has no length either.
entry_duration(type, e) ==
    IF TruthyField(type, e.end_time) THEN e.end_time ELSE e.length

\* Whether the entry raises KeyError: start_time, length (when read) or
\* rename_to is missing.
entry_malformed(type, e) ==
    \/ e.start_time = None
    \/ entry_duration(type, e) = None
    \/ e.rename_to = None

\* `fileext in filebase': fileext occurs somewhere in name.
contains(name, fileext) ==
    \E i \in 0..(Len(name) - Len(fileext)) :
      SubSeq(name, i + 1, i + Len(fileext)) = fileext

\* filebase + "." + fileext: rename_to loses its last dot-part when it
\* contains fileext.
output_name(rename_to, fileext) ==
    (IF contains(rename_to, fileext)
     THEN without_last_part(rename_to)
     ELSE rename_to) \o <<".">> \o fileext

\* Where the loop goes after an entry raised KeyError: the handler
\* prints the expected format and raises SystemExit.
after_malformed_entry == "done"

\* One iteration of `for video_config in config': a malformed entry ends
\* the run; otherwise one transcoder cut invocation, which succeeds or
\* fails.
split_by_manifest_entry ==
    /\ tool = "split"
    /\ pc = "entries"
    /\ n < Len(config)
    /\ n' = n + 1
    /\ UNCHANGED <<tool, opts, media, splitVars, manifestVars, mergeVars>>
    /\ LET e == config[n + 1] IN
       IF entry_malformed(manifest.type, e)
       THEN /\ pc' = after_malformed_entry
            /\ err' = "MalformedManifestEntry"
            /\ exitCode' = Some(SystemExitStatus)
            /\ UNCHANGED calls
       ELSE /\ calls' = Append(calls,
                   [idx |-> n + 1,
                    ss |-> e.start_time[1],
                    t |-> entry_duration(manifest.type, e)[1],
                    out |-> output_name(e.rename_to, last_part(InputName))])
            /\ \E ok \in BOOLEAN :
                 IF ok
                 THEN UNCHANGED <<pc, err, exitCode>>
                 ELSE /\ pc' = after_cut_failure
                      /\ err' = "TranscodeFailure"
                      /\ exitCode' = Some(FailureStatus)

\* The entries are exhausted: split_by_manifest and main return.
split_by_manifest_return ==
    /\ tool = "split"
    /\ pc = "entries"
    /\ n >= Len(config)
    /\ Finish("none", 0)
    /\ UNCHANGED <<tool, opts, media, splitVars, n, calls, manifestVars,
                   mergeVars>>

\* ------------------------------------------------------- ffmpeg-merge.py

Codecs == {"h264", "hevc"}
Widths == {640, 1280}
Heights == {480, 720}

\* What get_video_info returns for a file: None (ffprobe failed, or the
\* file has no video stream) or the video stream's attributes.
ProbeResults ==
    {None} \cup {<<[codec_name |-> c, width |-> w, height |-> h]>> :
                   c \in Codecs, w \in Widths, h \in Heights}

\* The directory: whether argv names it, whether it is a directory, and
\* its video files in sorted order, file i being path i, each with what
\* probing it yields.
Directories ==
    {[given |-> FALSE, is_dir |-> FALSE, files |-> << >>],
     [given |-> TRUE, is_dir |-> FALSE, files |-> << >>]}
    \cup [given : {TRUE}, is_dir : {TRUE},
          files : SeqsUpTo(ProbeResults, MaxFiles)]

\* The info dictionary of file i.
video_info(files, i) ==
    [codec_name |-> files[i][1].codec_name,
     width |-> files[i][1].width,
     height |-> files[i][1].height,
     file_path |-> i]

\* mismatch with a fault: the height is not compared.  C5 depends on all
\* three comparisons.
mismatch_ignores_height(files, i) ==
    \/ files[i][1].codec_name # files[1][1].codec_name
    \/ files[i][1].width # files[1][1].width

\* Whether file i differs from the reference, the first file.
mismatch(files, i) ==
    \/ files[i][1].codec_name # files[1][1].codec_name
    \/ files[i][1].width # files[1][1].width
    \/ files[i][1].height # files[1][1].height

\* The reason returned for file i, which differs from the reference: the
\* codec is compared first, then the resolution.
incompatible_reason(files, i) ==
    IF files[i][1].codec_name # files[1][1].codec_name
    THEN [kind |-> "Incompatible codec",
          reference |-> <<files[1][1].codec_name>>,
          other |-> <<files[i][1].codec_name>>]
    ELSE [kind |-> "Incompatible resolution",
          reference |-> <<files[1][1].width, files[1][1].height>>,
          other |-> <<files[i][1].width, files[i][1].height>>]

\* The least element of a non-empty set of integers.
Least(S) == CHOOSE i \in S : \A j \in S : i <= j

\* check_videos_compatibility: (False, reason) or (True, video_infos).
check_videos_compatibility(files) ==
    LET failed == {i \in 1..Len(files) : files[i] = None}
        differ == {i \in 2..Len(files) : mismatch(files, i)}
    IN
    IF files = << >>
    THEN [ok |-> FALSE, reason |-> [kind |-> "No video files found"]]
    ELSE IF failed # {}
    THEN [ok |-> FALSE,
          reason |-> [kind |-> "Could not get information",
                      file_path |-> Least(failed)]]
    ELSE IF differ # {}
    THEN [ok |-> FALSE, reason |-> incompatible_reason(files, Least(differ))]
    ELSE [ok |-> TRUE,
          video_infos |-> [i \in 1..Len(files) |-> video_info(files, i)]]

NoResult == [ok |-> FALSE, reason |-> [kind |-> "not checked"]]

\* main up to the compatibility check: usage, directory and empty
\* directory errors, all with sys.exit(1).
main_merge_scan ==
    /\ tool = "merge"
    /\ pc = "main"
    /\ UNCHANGED <<tool, opts, media, splitVars, n, calls, manifestVars,
                   mergeVars>>
    /\ IF ~video_files.given
       THEN Finish("UsageError", FailureStatus)
       ELSE IF ~video_files.is_dir
       THEN Finish("NotADirectory", FailureStatus)
       ELSE IF video_files.files = << >>
       THEN Finish("EmptyInputError", FailureStatus)
       ELSE /\ pc' = "check"
            /\ UNCHANGED <<err, exitCode>>

\* The error main reports for a failed check.
check_error(reason) ==
    CASE reason.kind = "No video files found" -> "EmptyInputError"
      [] reason.kind = "Could not get information" -> "ProbeFailure"
      [] OTHER -> "IncompatibleMediaError"

\* main: check_videos_compatibility, and sys.exit(1) unless compatible.
main_merge_check ==
    /\ tool = "merge"
    /\ pc = "check"
    /\ check_result' = check_videos_compatibility(video_files.files)
    /\ UNCHANGED <<tool, opts, media, splitVars, n, calls, manifestVars,
                   video_files, temp_file>>
    /\ IF check_result'.ok
       THEN /\ pc' = "merge_videos"
            /\ UNCHANGED <<err, exitCode>>
       ELSE Finish(check_error(check_result'.reason), FailureStatus)

WriteOutcomes == {"written", "open fails", "write fails"}

\* merge_videos: concat_list.txt is opened for writing, which creates
\* it, and one line per file is written.  An OSError is not caught.
merge_videos_write ==
    /\ tool = "merge"
    /\ pc = "merge_videos"
    /\ UNCHANGED <<tool, opts, media, splitVars, n, calls, manifestVars,
                   video_files, check_result>>
    /\ \E w \in WriteOutcomes :
         /\ temp_file' = (w # "open fails")
         /\ IF w = "written"
            THEN /\ pc' = "concat"
                 /\ UNCHANGED <<err, exitCode>>
            ELSE Finish("OSError", FailureStatus)

TranscoderOutcomes == {"exit 0", "exit nonzero", "cannot launch"}

\* Whether concat_list.txt still exists after the try statement: removed
\* after check_call returns and in the CalledProcessError handler; any
\* other exception leaves the try with the file in place.
temp_file_after(t) == t = "cannot launch"

\* merge_videos: the transcoder's concat invocation and the clean-up,
\* then main's report: sys.exit(1) unless merged.
merge_videos_concat ==
    /\ tool = "merge"
    /\ pc = "concat"
    /\ UNCHANGED <<tool, opts, media, splitVars, n, calls, manifestVars,
                   video_files, check_result>>
    /\ \E t \in TranscoderOutcomes :
         /\ temp_file' = temp_file_after(t)
         /\ CASE t = "exit 0" -> Finish("none", 0)
              [] t = "exit nonzero" -> Finish("TranscodeFailure", FailureStatus)
              [] OTHER -> Finish("OSError", FailureStatus)

\* ------------------------------------------------------------ the system

\* The command line when only --manifest (and perhaps --file) is given.
ManifestOptions ==
    [filename : BOOLEAN,
     manifest : {TRUE},
     split_length : {None},
     split_chunks : {None},
     split_filesize : {None},
     factor : {<<DefaultFactorNum, DefaultFactorDen>>},
     chunk_strategy : {"eager"}]

NoOptions == CHOOSE o \in ManifestOptions : ~o.filename
NoMedia == [sec |-> 0, frac |-> FALSE, size |-> 0]
NoManifest == CHOOSE m \in Manifests : ~m.exists
NoDirectory == CHOOSE d \in Directories : ~d.given

InitSeconds ==
    /\ tool = "split"
    /\ opts \in {o \in SplitOptions :
                   /\ ~o.manifest
                   /\ ~o.filename => o = [NoOptions EXCEPT !.manifest = FALSE]}
    /\ media \in Medias
    /\ manifest = NoManifest
    /\ video_files = NoDirectory

InitManifest ==
    /\ tool = "split"
    /\ opts \in ManifestOptions
    /\ media = NoMedia
    /\ manifest \in Manifests
    /\ video_files = NoDirectory

InitMerge ==
    /\ tool = "merge"
    /\ opts = NoOptions
    /\ media = NoMedia
    /\ manifest = NoManifest
    /\ video_files \in Directories

Init ==
    /\ InitSeconds \/ InitManifest \/ InitMerge
    /\ pc = "main"
    /\ split_chunks = opts.split_chunks
    /\ split_length = opts.split_length
    /\ video_length = None
    /\ split_count = None
    /\ n = 0
    /\ calls = << >>
    /\ err = "none"
    /\ exitCode = None
    /\ config = << >>
    /\ check_result = NoResult
    /\ temp_file = FALSE

Next ==
    \/ main_seconds
    \/ split_by_seconds_plan
    \/ split_by_seconds_cut
    \/ split_by_seconds_return
    \/ main_manifest
    \/ split_by_manifest_open
    \/ split_by_manifest_entry
    \/ split_by_manifest_return
    \/ main_merge_scan
    \/ main_merge_check
    \/ merge_videos_write
    \/ merge_videos_concat

Spec == Init /\ [][Next]_vars

\* ------------------------------------------------------------------ claims

\* A run of split-by-seconds (no --manifest, a --file given).
SecondsRun == tool = "split" /\ ~opts.manifest /\ opts.filename

\* main has resolved the split length (its probe and its arithmetic did
\* not fail): split_length holds the length it settled on.
Resolved ==
    /\ SecondsRun
    /\ \/ pc \in {"split_by_seconds", "cut"}
       \/ /\ pc = "done"
          /\ err \in {"none", "MissingSplitParameter", "InvalidLengthError",
                      "TrivialSplitError", "TranscodeFailure"}

\* The count and the size target are each absent or positive.
PositiveInputs ==
    /\ opts.split_chunks = None \/ opts.split_chunks[1] > 0
    /\ opts.split_filesize = None \/ opts.split_filesize[1] > 0

\* floor(target_size * factor) of the command line; 0 without a target.
TargetBytes ==
    IF opts.split_filesize = None THEN 0
    ELSE IntTrunc(opts.split_filesize[1] * opts.factor[1], opts.factor[2])

\* C1 (as claimed): a split-by-seconds run that ends without error on a
\* file of duration > 0 (here: of a second or more) has issued exactly
\* ceil(duration / length) segments, the i-th starting at (i-1)*length
\* for length seconds, and the last one reaches the file's true duration.
C1_SegmentsCoverDuration ==
    (SecondsRun /\ pc = "done" /\ err = "none" /\ media.sec >= 1)
    => /\ Len(calls) = CeilTrueDuration(media, split_length[1])
       /\ \A i \in 1..Len(calls) :
            /\ calls[i].ss = (i - 1) * split_length[1]
            /\ calls[i].t = split_length[1]
       /\ calls # << >>
       /\ CoversTrueDuration(media, calls[Len(calls)].ss + split_length[1])

\* C2 (as claimed): with no explicit length, a file-size target decides
\* the length, by the formula of its strategy, whether or not a count is
\* given as well.
C2_SizeBeforeCount ==
    (Resolved /\ PositiveInputs /\ opts.split_length = None
        /\ TargetBytes > 0 /\ media.size > 0)
    => split_length =
         IF opts.chunk_strategy = "even"
         THEN Some(ceildiv(media.sec, ceildiv(media.size, TargetBytes)))
         ELSE Some(IntTrunc(TargetBytes * media.sec, media.size))

\* The length the resolution order of C2 (as amended) yields.
C2_ExpectedLength ==
    LET vl == media.sec
        useEven == TargetBytes # 0 /\ opts.chunk_strategy = "even"
        evenChunks == ceildiv(media.size, TargetBytes)
        count == IF useEven THEN Some(evenChunks) ELSE opts.split_chunks
        byCount == ceildiv(vl, count[1])
    IN
    IF Truthy(opts.split_length) THEN opts.split_length
    ELSE IF Truthy(count) /\ byCount # 0 THEN Some(byCount)
    ELSE IF TargetBytes # 0 THEN Some(IntTrunc(TargetBytes * vl, media.size))
    ELSE IF Truthy(count) THEN Some(0)
    ELSE opts.split_length

\* C2 (amended): the length is resolved in the order: a non-zero explicit
\* length; else a non-zero count, which is ceil(size_bytes / target_bytes)
\* under EVEN with a non-zero target and the supplied count otherwise,
\* giving ceil(duration / count); else, when that left no non-zero
\* length and the target is non-zero, trunc(target_bytes / size_bytes *
\* duration).  Under EAGER a supplied count comes before the size target.
C2_ResolutionOrder == Resolved => split_length = C2_ExpectedLength

\* C2 witness: EAGER, a count and a size target, no explicit length: the
\* count decided, and the size target would have given another length.
C2_Witness ==
    /\ Resolved
    /\ opts.split_length = None
    /\ opts.chunk_strategy = "eager"
    /\ Truthy(opts.split_chunks)
    /\ TargetBytes > 0
    /\ media.size > 0
    /\ split_length = Some(ceildiv(media.sec, opts.split_chunks[1]))
    /\ split_length # Some(IntTrunc(TargetBytes * media.sec, media.size))

\* C3 (as claimed): a segment count <= 1, 0 included, ends the run with
\* the trivial-split error and without a transcoder invocation.
C3_TrivialSplitFails ==
    (SecondsRun /\ split_count # None /\ split_count[1] <= 1)
    => pc = "done" /\ err = "TrivialSplitError" /\ calls = << >>

\* C4 (as claimed): a resolved length <= 0, zero included, ends the run
\* with the invalid-length error and without a transcoder invocation.
C4_InvalidLengthFails ==
    (Resolved /\ PositiveInputs /\ split_length # None
        /\ split_length[1] <= 0)
    => /\ pc # "cut"
       /\ calls = << >>
       /\ pc = "done" => err = "InvalidLengthError"

\* A run of ffmpeg-merge.py past check_videos_compatibility, on a
\* non-empty list of files whose probes all succeeded.
Checked ==
    /\ tool = "merge"
    /\ pc \notin {"main", "check"}
    /\ video_files.files # << >>
    /\ \A i \in 1..Len(video_files.files) : video_files.files[i] # None

C6_ConcatListDeleted == (tool = "merge" /\ pc = "done") => ~temp_file

\* C7 (as claimed): a run ends with exit code 1 on every error and with
\* exit code 0 only on success.
C7_ExitCodeTellsError ==
    pc = "done" => (exitCode = Some(1) <=> err # "none")
                   /\ (exitCode = Some(0) <=> err = "none")

\* The number of segments a split run enumerates.
Segments == IF opts.manifest THEN Len(config) ELSE split_count[1]

\* C8: the cut invocations are issued one at a time, the k-th issued
\* being that of the k-th segment enumerated, and none is issued once an
\* error has occurred.
C8_SequentialAbortOnError ==
    [][/\ \/ calls' = calls
          \/ /\ calls' = Append(calls, calls'[Len(calls')])
             /\ calls'[Len(calls')].idx = Len(calls')
       /\ err # "none" => calls' = calls]_vars

\* C8 witness: a transcoder invocation failed with segments left to cut.
C8_Witness ==
    /\ tool = "split"
    /\ err = "TranscodeFailure"
    /\ Len(calls) >= 1
    /\ Len(calls) < Segments

\* A run of split-by-manifest on a flat manifest that reached its loop.
FlatRun ==
    /\ tool = "split"
    /\ opts.manifest
    /\ ~manifest.structured
    /\ pc \in {"entries", "done"}
    /\ config = manifest.entries

\* C9 (as claimed): the duration passed for an entry is its length
\* whenever it has one.
C9_LengthFirst ==
    FlatRun =>
    \A i \in 1..Len(calls) :
      config[calls[i].idx].length # None
      => calls[i].t = config[calls[i].idx].length[1]

\* C9 (amended): the duration passed for an entry is its end_time
\* whenever end_time is present and true (a JSON 0 is false); its length
\* is used only when end_time is absent or false; and an entry with
\* start_time and rename_to but neither a length nor a true end_time
\* fails as a malformed entry, without an invocation.
C9_EndTimeFirst ==
    FlatRun =>
    LET usable(e) == /\ e.end_time # None
                     /\ (manifest.type = "json" => e.end_time[1] # 0)
    IN
    /\ \A i \in 1..Len(calls) :
         LET e == config[calls[i].idx] IN
         Some(calls[i].t) = IF usable(e) THEN e.end_time ELSE e.length
    /\ \A k \in 1..n :
         (/\ config[k].start_time # None
          /\ config[k].rename_to # None
          /\ config[k].length = None
          /\ ~usable(config[k]))
         => k = n /\ err = "MalformedManifestEntry" /\ Len(calls) = k - 1

\* C9 witness: an entry with both a length and a true end_time was cut
\* with its end_time as the duration.
C9_Witness ==
    /\ FlatRun
    /\ \E i \in 1..Len(calls) :
         /\ config[calls[i].idx].length # None
         /\ config[calls[i].idx].end_time # None
         /\ calls[i].t = config[calls[i].idx].end_time[1]
         /\ calls[i].t # config[calls[i].idx].length[1]

\* A file-size split with strategy EVEN and no explicit length.
EvenRun ==
    /\ Resolved
    /\ ~Truthy(opts.split_length)
    /\ opts.chunk_strategy = "even"
    /\ TargetBytes # 0

\* C10 (as claimed): chunk_count is ceil(size_bytes / floor(target_size *
\* factor)), and when the duration is evenly divisible by it the run
\* produces chunk_count segments.
C10_EvenChunkCount ==
    (EvenRun /\ PositiveInputs) =>
    LET chunks == ceildiv(media.size, TargetBytes) IN
    /\ split_chunks = Some(chunks)
    /\ (chunks > 0 /\ media.sec > 0 /\ ~media.frac
          /\ media.sec % chunks = 0
          /\ pc = "done" /\ err \in {"none", "TrivialSplitError"})
       => Len(calls) = chunks

\* C10 (amended): chunk_count is ceil(size_bytes / floor(target_size *
\* factor)) when that floor is not 0, and when chunk_count >= 2 and the
\* whole-second duration is positive and evenly divisible by it, the run
\* plans chunk_count segments and, ending without error, has cut
\* chunk_count segments.
C10_EvenChunkCountFromTwo ==
    EvenRun =>
    LET chunks == -((-media.size) \div TargetBytes) IN
    /\ split_chunks = Some(IF TargetBytes > 0 THEN chunks
                           ELSE -(media.size \div (-TargetBytes)))
    /\ (TargetBytes > 0 /\ chunks >= 2 /\ media.sec > 0
          /\ media.sec % chunks = 0)
       => /\ pc \in {"cut", "done"} => split_count = Some(chunks)
          /\ pc = "done" => err \in {"none", "TranscodeFailure"}
          /\ (pc = "done" /\ err = "none") => Len(calls) = chunks

\* C10 witness: an EVEN run of three chunks on a divisible duration has
\* ended with three segments cut.
C10_Witness ==
    /\ EvenRun
    /\ split_chunks = Some(3)
    /\ media.sec % 3 = 0
    /\ pc = "done"
    /\ err = "none"
    /\ Len(calls) = 3

\* Whether name ends in "." followed by fileext: it carries the
\* extension as its extension.
CarriesExtension(name, fileext) ==
    /\ Len(name) > Len(fileext)
    /\ SubSeq(name, Len(name) - Len(fileext), Len(name)) = <<".">> \o fileext

\* C11 (as claimed): the output name of a flat manifest entry is its
\* rename_to followed by the source extension exactly once: rename_to
\* itself when it already ends in that extension, and otherwise the whole
\* of rename_to with the extension appended.
C11_ExtensionOnce ==
    FlatRun =>
    \A i \in 1..Len(calls) :
      LET r == config[calls[i].idx].rename_to
          x == last_part(InputName)
      IN calls[i].out = IF CarriesExtension(r, x) THEN r
                        ELSE r \o <<".">> \o x

====
